---- MODULE Spec2Model ----
(***************************************************************************)
(* Model of frequent_apriori: the in-memory inverted index (Memory.py),    *)
(* the level-wise frequent item set search and the association rule        *)
(* derivation (Abstracts.py).                                              *)
(*                                                                         *)
(* Numbers that are floats in the program (relative support, confidence,   *)
(* lift, thresholds) are exact rationals here: a pair <<n, d>> with d > 0, *)
(* compared by cross-multiplication.                                       *)
(***************************************************************************)
EXTENDS Integers, Sequences, FiniteSets, TLC

\* Item labels (opaque strings in the program).
Items == {"a", "b", "c"}

\* Largest number of transactions handed to the constructor.
MaxTx == 3

\* Largest number of item sets handed to association_rules.
MaxSets == 2

VARIABLES
    transactions,              \* constructor argument: sequence of item collections
    transaction_index,         \* self._transaction_index: item -> set of transaction ids
    transaction_count,         \* self._transaction_count
    order,                     \* iteration order of a Python set / frozenset of items
    minimum_support_passed,    \* get_frequent_item_sets: the threshold the caller passed
    minimum_support,           \* get_frequent_item_sets: the threshold after lines 162-169
    is_relative_support,       \* get_frequent_item_sets: mode flag
    prune,                     \* get_frequent_item_sets: prune flag
    iteration,                 \* level counter
    next_iteration,            \* loop flag
    iterations_frequent_sets,  \* level -> sequence of FrequentSet
    loops,                     \* number of executions of the while body so far
    frequent_item_sets,        \* result of get_frequent_item_sets / input of association_rules
    minimum_confidence,        \* association_rules: threshold
    minimum_lift,              \* association_rules: threshold
    global_item_subsets_support, \* association_rules: the fragment pool, in discovery order
    association_rules,         \* association_rules: emitted rules, then the returned list
    error,                     \* "none" or the exception that ended the call
    pc                         \* position of the call in progress

vars == <<transactions, transaction_index, transaction_count, order,
          minimum_support_passed, minimum_support, is_relative_support, prune, iteration,
          next_iteration, iterations_frequent_sets, loops, frequent_item_sets,
          minimum_confidence, minimum_lift, global_item_subsets_support,
          association_rules, error, pc>>

storeVars == <<transactions, transaction_index, transaction_count, order>>
mineVars == <<minimum_support_passed, minimum_support, is_relative_support, prune, iteration,
              next_iteration, iterations_frequent_sets, loops>>
ruleVars == <<minimum_confidence, minimum_lift, global_item_subsets_support,
              association_rules>>

-----------------------------------------------------------------------------
\* Exact rationals <<n, d>>, d > 0.

RatLt(x, y) == x[1] * y[2] < y[1] * x[2]
RatLe(x, y) == x[1] * y[2] <= y[1] * x[2]
RatEq(x, y) == x[1] * y[2] = y[1] * x[2]

\* int(x): truncation toward zero.
IntTrunc(x) ==
    IF x[1] >= 0 THEN x[1] \div x[2] ELSE -((-x[1]) \div x[2])

-----------------------------------------------------------------------------
\* Sequence helpers that mirror the Python built-ins the program uses.

Range(s) == {s[i] : i \in DOMAIN s}

Reverse(s) == [i \in 1..Len(s) |-> s[Len(s) + 1 - i]]

RECURSIVE Concat(_)
Concat(ss) == IF ss = <<>> THEN <<>> ELSE Head(ss) \o Concat(Tail(ss))

\* list(a set of items): the items in the set's iteration order.
RECURSIVE Listed(_, _)
Listed(S, ord) ==
    IF ord = <<>> THEN <<>>
    ELSE IF Head(ord) \in S THEN <<Head(ord)>> \o Listed(S, Tail(ord))
    ELSE Listed(S, Tail(ord))

\* itertools.combinations(s, k), as sets, in the order itertools emits them.
RECURSIVE combinations(_, _)
combinations(s, k) ==
    IF k = 0 THEN << {} >>
    ELSE IF Len(s) < k THEN <<>>
    ELSE LET with == combinations(Tail(s), k - 1)
         IN  [i \in 1..Len(with) |-> {Head(s)} \cup with[i]]
             \o combinations(Tail(s), k)

\* itertools.combinations(s, 2) of a sequence, as pairs of positions.
PairsOfPositions(n) ==
    LET row(i) == [j \in 1..(n - i) |-> <<i, i + j>>]
    IN  Concat([i \in 1..n |-> row(i)])

-----------------------------------------------------------------------------
\* Memory.py: the inverted index.

\* FrequentPatterns._index_transactions: item -> ids (1-based) of the
\* transactions that hold it; only items that occur get a key.
IndexTransactions(trs) ==
    [item \in UNION Range(trs) |-> {row \in 1..Len(trs) : item \in trs[row]}]

\* First position at which an item occurs, counting items transaction by
\* transaction; used for the insertion order of the index keys.
FirstRow(trs, item) == CHOOSE row \in 1..Len(trs) :
    /\ item \in trs[row]
    /\ \A r \in 1..(row - 1) : item \notin trs[r]

\* FrequentPatterns._get_all_items: the keys of the index, in insertion order.
GetAllItems ==
    Concat([row \in 1..transaction_count |->
        Listed({item \in DOMAIN transaction_index :
                   FirstRow(transactions, item) = row}, order)])

\* FrequentPatterns._item_transactions: dict.get(item, set()).
ItemTransactions(item) ==
    IF item \in DOMAIN transaction_index THEN transaction_index[item] ELSE {}

-----------------------------------------------------------------------------
\* Abstracts.py: the value objects and their orderings.

\* FrequentSet(items, support, relative_support)
FrequentSet(items, support, relative_support) ==
    [items |-> items, support |-> support, relative_support |-> relative_support]

\* AssociationRule with its four attributes set.
AssociationRule(condition, consequence, confidence, lift) ==
    [condition |-> condition, consequence |-> consequence,
     confidence |-> confidence, lift |-> lift]

\* FrequentSet.__lt__
FrequentSetLt(x, y) == x.support < y.support

\* AssociationRule.__lt__
AssociationRuleLt(x, y) ==
    RatLt(x.confidence, y.confidence) /\ RatLt(x.lift, y.lift)

\* key=association_rules_confidence.__getitem__: compare the confidences.
ConfidenceKeyLt(x, y) == RatLt(x.confidence, y.confidence)

\* The "<" that sorted() applies, by the kind of list it is given.
PyLt(kind, x, y) ==
    CASE kind = "FrequentSet" -> FrequentSetLt(x, y)
      [] kind = "AssociationRule" -> AssociationRuleLt(x, y)
      [] kind = "key" -> ConfidenceKeyLt(x, y)

\* list.sort for fewer than 64 elements: the first natural run (reversed when
\* strictly descending), then binary insertion of the remaining elements.
RECURSIVE RunEnd(_, _, _, _)
RunEnd(s, kind, n, descending) ==
    IF n = Len(s) THEN n
    ELSE IF PyLt(kind, s[n + 1], s[n]) = descending
         THEN RunEnd(s, kind, n + 1, descending)
         ELSE n

RECURSIVE BinarySearch(_, _, _, _, _)
BinarySearch(s, kind, pivot, l, r) ==
    IF l >= r THEN l
    ELSE LET p == l + ((r - l) \div 2)
         IN  IF PyLt(kind, pivot, s[p + 1])
             THEN BinarySearch(s, kind, pivot, l, p)
             ELSE BinarySearch(s, kind, pivot, p + 1, r)

RECURSIVE BinarySort(_, _, _)
BinarySort(s, kind, start) ==
    IF start > Len(s) THEN s
    ELSE LET pivot == s[start]
             l == BinarySearch(s, kind, pivot, 0, start - 1)
             moved == SubSeq(s, 1, l) \o <<pivot>> \o SubSeq(s, l + 1, start - 1)
                      \o SubSeq(s, start + 1, Len(s))
         IN  BinarySort(moved, kind, start + 1)

ListSort(s, kind) ==
    IF Len(s) < 2 THEN s
    ELSE LET descending == PyLt(kind, s[2], s[1])
             n == RunEnd(s, kind, 2, descending)
             run == IF descending
                    THEN Reverse(SubSeq(s, 1, n)) \o SubSeq(s, n + 1, Len(s))
                    ELSE s
         IN  BinarySort(run, kind, n + 1)

\* sorted(s, reverse=True): reverse, sort ascending, reverse.
SortedReverse(s, kind) == Reverse(ListSort(Reverse(s), kind))

-----------------------------------------------------------------------------
\* Abstracts.py: the support query.

\* reduce(set.intersection, sets)
RECURSIVE ReduceIntersection(_)
ReduceIntersection(sets) ==
    IF Len(sets) = 1 THEN sets[1]
    ELSE ReduceIntersection(<<sets[1] \cap sets[2]>> \o Tail(Tail(sets)))

\* Variant of support_count: the transaction sets are united, not intersected.
support_count_Union(candidate) ==
    Cardinality(UNION {ItemTransactions(item) : item \in candidate})

\* The first value __support_value returns.
support_count(candidate) ==
    LET its == Listed(candidate, order)
    IN  Cardinality(ReduceIntersection(
            [i \in 1..Len(its) |-> ItemTransactions(its[i])]))

\* __support_value raises ZeroDivisionError when there are no transactions.
support_value_fails == transaction_count = 0

\* __support_value(candidate): support and relative support.
support_value(candidate) ==
    LET support == support_count(candidate)
    IN  [support |-> support,
         relative_support |-> <<support, transaction_count>>]

-----------------------------------------------------------------------------
\* Abstracts.py: get_frequent_item_sets.

\* Lines 162-169: the threshold the search uses.
ClampedSupport(ms, rel) ==
    IF rel = FALSE
    THEN LET m == IntTrunc(ms)
         IN  IF m < 0 \/ m > transaction_count
             THEN <<transaction_count, 1>>
             ELSE <<m, 1>>
    ELSE IF ~(RatLe(<<0, 1>>, ms) /\ RatLe(ms, <<1, 1>>))
         THEN <<1, 1>>
         ELSE ms

\* Lines 177-184: one placeholder FrequentSet per key of the index; its
\* relative_support is the mode flag (True is 1, False is 0).
InitialSet(rel) ==
    LET keys == GetAllItems
    IN  [i \in 1..Len(keys) |->
            FrequentSet({keys[i]}, 0, IF rel THEN <<1, 1>> ELSE <<0, 1>>)]

\* Variant of NotMinimumSupport: a candidate exactly at the threshold is dropped.
NotMinimumSupport_OffByOne(sv, ms, rel) ==
    IF rel = TRUE
    THEN RatLe(sv.relative_support, ms)
    ELSE sv.support <= ms[1]

\* Lines 236-239: the candidate is below the threshold.
NotMinimumSupport(sv, ms, rel) ==
    IF rel = TRUE
    THEN RatLt(sv.relative_support, ms)
    ELSE sv.support < ms[1]

\* Variant of CandidateSets: the candidate size does not grow with the level.
CandidateSets_FixedSize(previous, level) ==
    combinations(Listed(UNION {previous[i].items : i \in DOMAIN previous}, order), 1)

\* Lines 211-230: the candidates of size level + 1 that are kept for counting.
CandidateSets(previous, level) ==
    LET unique_items == UNION {previous[i].items : i \in DOMAIN previous}
        previous_frequent_sets == {previous[i].items : i \in DOMAIN previous}
        possible_candidate_sets == combinations(Listed(unique_items, order), level + 1)
        discard_candidate(candidate) ==
            \E item_subset \in SUBSET candidate :
                /\ Cardinality(item_subset) = level
                /\ item_subset \notin previous_frequent_sets
    IN  IF level > 0
        THEN SelectSeq(possible_candidate_sets, LAMBDA c : ~discard_candidate(c))
        ELSE possible_candidate_sets

\* Lines 232-250: the candidates that meet the threshold, with their support.
CurrentIterationFrequentSets(candidate_sets, ms, rel) ==
    LET kept == SelectSeq(candidate_sets,
                    LAMBDA c : ~NotMinimumSupport(support_value(c), ms, rel))
    IN  [i \in 1..Len(kept) |->
            FrequentSet(kept[i], support_value(kept[i]).support,
                        support_value(kept[i]).relative_support)]

\* Lines 267-271: the levels joined, in level order (level 0 is deleted).
JoinedFrequentSets(levels, last) ==
    Concat([l \in 1..last |-> levels[l]])

\* Variant of PrunedSets: the later set of a pair is tested against the earlier.
RECURSIVE PrunedSets_LaterInEarlier(_, _, _)
PrunedSets_LaterInEarlier(joined, pairs, pruned_sets) ==
    IF pairs = <<>> THEN pruned_sets
    ELSE LET set1 == Head(pairs)[1]
             set2 == Head(pairs)[2]
         IN  IF set2 \notin pruned_sets /\ joined[set2].items \subseteq joined[set1].items
             THEN PrunedSets_LaterInEarlier(joined, Tail(pairs), pruned_sets \cup {set2})
             ELSE PrunedSets_LaterInEarlier(joined, Tail(pairs), pruned_sets)

\* Lines 275-277: over combinations(joined, 2), the earlier set of a pair is
\* pruned when its items are a subset of the later set's items.
RECURSIVE PrunedSets(_, _, _)
PrunedSets(joined, pairs, pruned_sets) ==
    IF pairs = <<>> THEN pruned_sets
    ELSE LET set1 == Head(pairs)[1]
             set2 == Head(pairs)[2]
         IN  IF set1 \notin pruned_sets /\ joined[set1].items \subseteq joined[set2].items
             THEN PrunedSets(joined, Tail(pairs), pruned_sets \cup {set1})
             ELSE PrunedSets(joined, Tail(pairs), pruned_sets)

\* Lines 279-283: the sets that were not pruned, in their order.
RECURSIVE Cleaned(_, _, _)
Cleaned(joined, pruned_sets, i) ==
    IF i > Len(joined) THEN <<>>
    ELSE (IF i \in pruned_sets THEN <<>> ELSE <<joined[i]>>)
         \o Cleaned(joined, pruned_sets, i + 1)

\* Lines 259-285: what get_frequent_item_sets returns.
CleanedFrequentSets(levels, last, pr) ==
    LET joined == JoinedFrequentSets(levels, last)
        pruned_sets == IF pr = TRUE
                       THEN PrunedSets(joined, PairsOfPositions(Len(joined)), {})
                       ELSE {}
    IN  SortedReverse(Cleaned(joined, pruned_sets, 1), "FrequentSet")

\* Thresholds a caller passes: halves from -1 to MaxTx + 1, and thirds in [0, 1].
SupportInputs ==
    {<<n, 2>> : n \in (-2)..(2 * MaxTx + 2)} \cup {<<1, 3>>, <<2, 3>>}

\* Call of get_frequent_item_sets up to the loop (lines 162-187).
MineBegin ==
    /\ pc = "idle"
    /\ \E ms \in SupportInputs, rel \in BOOLEAN, pr \in BOOLEAN :
        /\ minimum_support_passed' = ms
        /\ minimum_support' = ClampedSupport(ms, rel)
        /\ is_relative_support' = rel
        /\ prune' = pr
        /\ iterations_frequent_sets' = [l \in {0} |-> InitialSet(rel)]
    /\ iteration' = 0
    /\ next_iteration' = TRUE
    /\ loops' = 0
    /\ pc' = "while"
    /\ UNCHANGED <<storeVars, frequent_item_sets, ruleVars, error>>

\* One execution of the while body (lines 189-256).
MineLevel ==
    /\ pc = "while"
    /\ next_iteration = TRUE
    /\ LET candidate_sets == CandidateSets(iterations_frequent_sets[iteration], iteration)
           current == CurrentIterationFrequentSets(
                          candidate_sets, minimum_support, is_relative_support)
       IN  IF Len(current) > 0
           THEN /\ iteration' = iteration + 1
                /\ iterations_frequent_sets' =
                       [l \in 0..(iteration + 1) |->
                           IF l = iteration + 1 THEN current
                           ELSE iterations_frequent_sets[l]]
                /\ UNCHANGED next_iteration
           ELSE /\ next_iteration' = FALSE
                /\ UNCHANGED <<iteration, iterations_frequent_sets>>
    /\ loops' = loops + 1
    /\ UNCHANGED <<storeVars, minimum_support_passed, minimum_support,
                   is_relative_support, prune,
                   frequent_item_sets, ruleVars, error, pc>>

\* After the loop: delete level 0, prune, sort, return (lines 259-285).
MineFinish ==
    /\ pc = "while"
    /\ next_iteration = FALSE
    /\ frequent_item_sets' =
           CleanedFrequentSets(iterations_frequent_sets, iteration, prune)
    /\ iterations_frequent_sets' =
           [l \in 1..iteration |-> iterations_frequent_sets[l]]
    /\ pc' = "mined"
    /\ UNCHANGED <<storeVars, minimum_support_passed, minimum_support,
                   is_relative_support, prune,
                   iteration, next_iteration, loops, ruleVars, error>>

-----------------------------------------------------------------------------
\* The stores and the specifications.

\* A fixed listing of the item labels, used to number item sets.
ItemSeq == <<"a", "b", "c">>

RECURSIVE Code(_, _)
Code(S, i) ==
    IF i > Len(ItemSeq) THEN 0
    ELSE (IF ItemSeq[i] \in S THEN 1 ELSE 0) + 2 * Code(S, i + 1)

\* Transaction lists of at most MaxTx transactions. Supports depend on the
\* transactions only up to their order in the list, so one list per multiset
\* of transactions is taken.
Stores ==
    {trs \in UNION {[1..n -> SUBSET Items] : n \in 0..MaxTx} :
        \A i \in 1..(Len(trs) - 1) : Code(trs[i], 1) <= Code(trs[i + 1], 1)}

\* The iteration order of a set of strings is not fixed by the language.
ItemOrders == {o \in [1..Len(ItemSeq) -> Items] : Range(o) = Items}

\* FrequentPatternsAbstract.__init__ on a transaction list.
Constructed(trs) ==
    /\ transactions = trs
    /\ transaction_count = Len(trs)
    /\ transaction_index = IndexTransactions(trs)

Init ==
    /\ \E trs \in Stores : Constructed(trs)
    /\ order \in ItemOrders
    /\ minimum_support_passed = <<0, 1>>
    /\ minimum_support = <<0, 1>>
    /\ is_relative_support = TRUE
    /\ prune = TRUE
    /\ iteration = 0
    /\ next_iteration = FALSE
    /\ iterations_frequent_sets = <<>>
    /\ loops = 0
    /\ frequent_item_sets = <<>>
    /\ minimum_confidence = <<0, 1>>
    /\ minimum_lift = <<0, 1>>
    /\ global_item_subsets_support = <<>>
    /\ association_rules = <<>>
    /\ error = "none"
    /\ pc = "idle"

MineNext == MineBegin \/ MineLevel \/ MineFinish

MineSpec == Init /\ [][MineNext]_vars

-----------------------------------------------------------------------------
\* Abstracts.py: association_rules.

\* Lines 311-312: the largest input item set size, 0 for an empty list.
MaximumCardinality(sets) ==
    IF Len(sets) > 0
    THEN CHOOSE m \in {Cardinality(sets[i].items) : i \in DOMAIN sets} :
             \A i \in DOMAIN sets : Cardinality(sets[i].items) <= m
    ELSE 0

\* Lines 318-326: every subset the loops try, in the order they try it.
SubsetAttempts(sets) ==
    LET maximum_cardinality == MaximumCardinality(sets)
        of_set(frequent_set) ==
            Concat([subset_index \in 1..(maximum_cardinality - 1) |->
                       combinations(Listed(frequent_set, order), subset_index)])
    IN  IF maximum_cardinality > 1
        THEN Concat([i \in 1..Len(sets) |-> of_set(sets[i].items)])
        ELSE <<>>

\* Variant of Unique: a subset met again is stored again.
Unique_Repeated(attempts, global_item_subsets) == attempts

\* Lines 328-338: the attempts without repetitions, first occurrence kept.
RECURSIVE Unique(_, _)
Unique(attempts, global_item_subsets) ==
    IF attempts = <<>> THEN <<>>
    ELSE IF Head(attempts) \notin global_item_subsets
         THEN <<Head(attempts)>>
              \o Unique(Tail(attempts), global_item_subsets \cup {Head(attempts)})
         ELSE Unique(Tail(attempts), global_item_subsets)

\* Lines 314-338: the fragment pool, each fragment with its support in the store.
GlobalItemSubsetsSupport(sets) ==
    LET fragments == Unique(SubsetAttempts(sets), {})
    IN  [i \in 1..Len(fragments) |->
            FrequentSet(fragments[i], support_value(fragments[i]).support,
                        support_value(fragments[i]).relative_support)]

\* Variant of PairExamined: the intersection of the two fragments is not tested.
PairExamined_Overlapping(pool, i, j) == i # j

\* Lines 357-363: the pair of pool positions is examined.
PairExamined(pool, i, j) ==
    /\ i # j
    /\ pool[i].items \cap pool[j].items = {}

\* Lines 374 and 380: one of the two divisions has a zero divisor.
PairDivisionFails(pool, i, j) ==
    \/ pool[i].support = 0
    \/ pool[i].support * pool[j].relative_support[1] = 0

\* Variant of RuleSupport: the support of A u B is the one listed with the
\* input item set A u B, when there is one.
RuleSupport_Listed(pool, i, j) ==
    LET union == pool[i].items \cup pool[j].items
        listed == {k \in DOMAIN frequent_item_sets : frequent_item_sets[k].items = union}
    IN  IF listed = {}
        THEN <<support_value(union).support, pool[i].support>>
        ELSE <<frequent_item_sets[CHOOSE k \in listed : TRUE].support, pool[i].support>>

\* Line 374: rule_support.
RuleSupport(pool, i, j) ==
    <<support_value(pool[i].items \cup pool[j].items).support, pool[i].support>>

\* Line 380: lift = support(A u B) / (support(A) * relative_support(B)).
Lift(pool, i, j) ==
    <<support_value(pool[i].items \cup pool[j].items).support
          * pool[j].relative_support[2],
      pool[i].support * pool[j].relative_support[1]>>

\* Line 382: the rule passes both thresholds.
RuleAccepted(confidence, lift, min_confidence, min_lift) ==
    RatLe(min_confidence, confidence) /\ RatLe(min_lift, lift)

\* Lines 348-392: the rules in the order the two loops append them.
EmittedRules(pool, min_confidence, min_lift) ==
    LET one(i, j) ==
            LET rule_support == RuleSupport(pool, i, j)
                lift == Lift(pool, i, j)
            IN  IF PairExamined(pool, i, j)
                   /\ RuleAccepted(rule_support, lift, min_confidence, min_lift)
                THEN <<AssociationRule(pool[i].items, pool[j].items, rule_support, lift)>>
                ELSE <<>>
    IN  Concat([i \in 1..Len(pool) |->
            Concat([j \in 1..Len(pool) |-> one(i, j)])])

\* Variant of ConfidenceSorted: the sort on the confidence key is left out.
ConfidenceSorted_Unsorted(rules) == rules

\* Lines 395-397: the rules ordered by the confidence key, descending.
ConfidenceSorted(rules) == SortedReverse(rules, "key")

\* Lines 399-402: the list sorted again, with AssociationRule.__lt__.
ReturnedRules(rules) == SortedReverse(ConfidenceSorted(rules), "AssociationRule")

\* Item set lists a caller passes: at most MaxSets item sets built with the
\* constructor's default support, numbered increasingly.
ItemSetLists ==
    {sets \in UNION {[1..n -> {FrequentSet(S, 0, <<0, 1>>) : S \in SUBSET Items \ {{}}}]
                        : n \in 0..MaxSets} :
        \A i \in 1..(Len(sets) - 1) :
            Code(sets[i].items, 1) < Code(sets[i + 1].items, 1)}

ConfidenceInputs == {<<0, 1>>, <<1, 2>>, <<1, 1>>}

LiftInputs == {<<0, 1>>, <<1, 1>>}

\* Call of association_rules up to the pair loops (lines 302-338); the two
\* thresholds are not read before line 382.
RulesBegin(sets) ==
    /\ pc = "idle"
    /\ frequent_item_sets' = sets
    /\ association_rules' = <<>>
    /\ IF SubsetAttempts(sets) # <<>> /\ support_value_fails
       THEN /\ error' = "ZeroDivisionError"
            /\ pc' = "raised"
            /\ UNCHANGED global_item_subsets_support
       ELSE /\ global_item_subsets_support' = GlobalItemSubsetsSupport(sets)
            /\ pc' = "pairs"
            /\ UNCHANGED error
    /\ UNCHANGED <<storeVars, mineVars, minimum_confidence, minimum_lift>>

\* The pair loops, the two sorts and the return (lines 340-402).
RulesDerive(min_confidence, min_lift) ==
    /\ pc = "pairs"
    /\ minimum_confidence' = min_confidence
    /\ minimum_lift' = min_lift
    /\ LET pool == global_item_subsets_support
       IN  IF \E i, j \in DOMAIN pool :
                  PairExamined(pool, i, j) /\ PairDivisionFails(pool, i, j)
           THEN /\ error' = "ZeroDivisionError"
                /\ pc' = "raised"
                /\ UNCHANGED association_rules
           ELSE /\ association_rules' =
                       ReturnedRules(EmittedRules(pool, min_confidence, min_lift))
                /\ pc' = "ruled"
                /\ UNCHANGED error
    /\ UNCHANGED <<storeVars, mineVars, frequent_item_sets,
                   global_item_subsets_support>>

\* association_rules called on a store, with any list and thresholds.
RulesCall == \E sets \in ItemSetLists : RulesBegin(sets)

RulesReturn ==
    \E c \in ConfidenceInputs, l \in LiftInputs : RulesDerive(c, l)

RuleInit == Init /\ order \in {ItemSeq, Reverse(ItemSeq)}

RuleNext == RulesCall \/ RulesReturn

RuleSpec == RuleInit /\ [][RuleNext]_vars

\* Scenario 3 of the specification: the item sets with the supports listed
\* for them, the number of transactions and the confidence threshold.
Scenario3 ==
    [sets |-> <<FrequentSet({"a"}, 4, <<4, 4>>), FrequentSet({"b"}, 3, <<3, 4>>),
                FrequentSet({"a", "b"}, 2, <<2, 4>>)>>,
     count |-> 4,
     min_confidence |-> <<1, 2>>,
     lift |-> <<2, 3>>]

\* Lift thresholds that do not exceed the scenario's lift.
Scenario3LiftInputs == {<<0, 1>>, <<1, 2>>, <<2, 3>>}

Scenario3Stores ==
    {trs \in [1..Scenario3.count -> SUBSET Items] :
        \A i \in 1..(Len(trs) - 1) : Code(trs[i], 1) <= Code(trs[i + 1], 1)}

Scenario3Init ==
    /\ \E trs \in Scenario3Stores : Constructed(trs)
    /\ order \in {ItemSeq, Reverse(ItemSeq)}
    /\ minimum_support_passed = <<0, 1>>
    /\ minimum_support = <<0, 1>>
    /\ is_relative_support = TRUE
    /\ prune = TRUE
    /\ iteration = 0
    /\ next_iteration = FALSE
    /\ iterations_frequent_sets = <<>>
    /\ loops = 0
    /\ frequent_item_sets = <<>>
    /\ minimum_confidence = <<0, 1>>
    /\ minimum_lift = <<0, 1>>
    /\ global_item_subsets_support = <<>>
    /\ association_rules = <<>>
    /\ error = "none"
    /\ pc = "idle"

Scenario3Call == RulesBegin(Scenario3.sets)

Scenario3Return ==
    \E l \in Scenario3LiftInputs : RulesDerive(Scenario3.min_confidence, l)

Scenario3Next == Scenario3Call \/ Scenario3Return

Scenario3Spec == Scenario3Init /\ [][Scenario3Next]_vars

-----------------------------------------------------------------------------
\* Reference definitions for the properties: supports counted directly on the
\* transaction list, without the index and without the level-wise search.

TrueSupport(S) ==
    Cardinality({t \in 1..Len(transactions) : S \subseteq transactions[t]})

IndexedItems == UNION Range(transactions)

\* S meets the threshold the search uses.
MeetsThreshold(S) ==
    IF is_relative_support
    THEN minimum_support[1] * transaction_count <= TrueSupport(S) * minimum_support[2]
    ELSE minimum_support[1] <= TrueSupport(S)

FrequentItemSets == {S \in (SUBSET IndexedItems) \ {{}} : MeetsThreshold(S)}

MaximalItemSets ==
    {S \in FrequentItemSets : \A T \in FrequentItemSets : ~(S \subseteq T /\ S # T)}

ReturnedItemSets == {frequent_item_sets[i].items : i \in DOMAIN frequent_item_sets}

\* C1: without pruning, get_frequent_item_sets returns exactly the non-empty
\* subsets of the indexed items whose support is not below the threshold the
\* search uses, each once and with its true support; the result is closed
\* under non-empty subsets.
C1_ExactFrequentSets ==
    (pc = "mined" /\ prune = FALSE) =>
        /\ ReturnedItemSets = FrequentItemSets
        /\ Len(frequent_item_sets) = Cardinality(FrequentItemSets)
        /\ \A i \in DOMAIN frequent_item_sets :
            LET r == frequent_item_sets[i]
            IN  /\ r.support = TrueSupport(r.items)
                /\ r.relative_support = <<TrueSupport(r.items), transaction_count>>
                /\ \A S \in (SUBSET r.items) \ {{}} : S \in ReturnedItemSets

\* A search without pruning that reached level 3 and rejected some item set.
C1_Witness ==
    /\ pc = "mined"
    /\ prune = FALSE
    /\ minimum_support[1] > 0
    /\ \E i \in DOMAIN frequent_item_sets :
        Cardinality(frequent_item_sets[i].items) = Cardinality(Items)
    /\ \E t \in DOMAIN transactions : transactions[t] # Items /\ transactions[t] # {}

\* C2: with pruning, get_frequent_item_sets returns exactly the maximal
\* frequent item sets: none is a subset of another returned one, and every
\* frequent item set is a subset of a returned one.
C2_MaximalFrequentSets ==
    (pc = "mined" /\ prune = TRUE) =>
        /\ ReturnedItemSets = MaximalItemSets
        /\ Len(frequent_item_sets) = Cardinality(MaximalItemSets)
        /\ \A i, j \in DOMAIN frequent_item_sets :
            i # j => ~(frequent_item_sets[i].items \subseteq frequent_item_sets[j].items)
        /\ \A S \in FrequentItemSets : \E T \in ReturnedItemSets : S \subseteq T

\* A pruned result that holds a pair and a singleton, with subsets removed.
C2_Witness ==
    /\ pc = "mined"
    /\ prune = TRUE
    /\ \E i, j \in DOMAIN frequent_item_sets :
        /\ Cardinality(frequent_item_sets[i].items) = 2
        /\ Cardinality(frequent_item_sets[j].items) = 1
    /\ Len(frequent_item_sets) < Cardinality(FrequentItemSets)

\* C6: an absolute threshold below 0 or above the transaction count is
\* replaced by the transaction count, a relative threshold outside [0, 1] by
\* 1, and then only item sets held by every transaction are returned; a
\* threshold inside the range is used unchanged.
C6_Clamped ==
    (pc \in {"while", "mined"}) =>
        LET passed == minimum_support_passed
            top == IF is_relative_support THEN <<1, 1>> ELSE <<transaction_count, 1>>
            outside == RatLt(passed, <<0, 1>>) \/ RatLt(top, passed)
        IN  /\ outside =>
                /\ RatEq(minimum_support, top)
                /\ pc = "mined" =>
                    \A i \in DOMAIN frequent_item_sets :
                        TrueSupport(frequent_item_sets[i].items) = transaction_count
            /\ ~outside => RatEq(minimum_support, passed)

\* No two distinct items occur together in a transaction.
NoCooccurrence == \A t \in DOMAIN transactions : Cardinality(transactions[t]) <= 1

OnlySingletonsAfterLevelOne ==
    /\ ReturnedItemSets = {{item} : item \in {x \in IndexedItems : MeetsThreshold({x})}}
    /\ iteration <= 1
    /\ loops <= 2

C10_Terminates ==
    (pc \in {"while", "mined"}) =>
        /\ loops <= Cardinality(IndexedItems) + 1
        /\ loops = iteration + (IF next_iteration THEN 0 ELSE 1)
        /\ \A l \in 1..iteration : iterations_frequent_sets[l] # <<>>
        /\ next_iteration = FALSE =>
            ~\E S \in FrequentItemSets : Cardinality(S) = iteration + 1
        /\ pc = "mined" =>
            /\ \A S \in ReturnedItemSets : Cardinality(S) <= Cardinality(IndexedItems)
            /\ transaction_count = 0 => (loops = 1 /\ frequent_item_sets = <<>>)

\* A search that ran the body once more than there are items.
C10_Witness ==
    /\ pc = "mined"
    /\ IndexedItems = Items
    /\ loops = Cardinality(Items) + 1

-----------------------------------------------------------------------------
\* Reference definitions for the rules.

InputItemSets == {frequent_item_sets[i].items : i \in DOMAIN frequent_item_sets}

MaxSize ==
    IF InputItemSets = {} THEN 0
    ELSE CHOOSE m \in {Cardinality(S) : S \in InputItemSets} :
             \A S \in InputItemSets : Cardinality(S) <= m

\* The fragments: non-empty subsets of size 1..MaxSize-1 of an input item set.
Fragments ==
    LET max_size == MaxSize
        input == InputItemSets
    IN  {S \in (SUBSET Items) \ {{}} :
            /\ Cardinality(S) <= max_size - 1
            /\ \E T \in input : S \subseteq T}

TrueConfidence(A, B) == <<TrueSupport(A \cup B), TrueSupport(A)>>

\* (support(A u B) / support(A)) / (support(B) / transaction count)
TrueLift(A, B) ==
    <<TrueSupport(A \cup B) * transaction_count, TrueSupport(A) * TrueSupport(B)>>

ExpectedRules(fragments) ==
    {ab \in fragments \X fragments :
        /\ ab[1] # ab[2]
        /\ ab[1] \cap ab[2] = {}
        /\ RatLe(minimum_confidence, TrueConfidence(ab[1], ab[2]))
        /\ RatLe(minimum_lift, TrueLift(ab[1], ab[2]))}

ReturnedPairs ==
    {<<association_rules[i].condition, association_rules[i].consequence>> :
        i \in DOMAIN association_rules}

\* C3: when every fragment has non-zero support, association_rules returns
\* exactly one rule for each ordered pair of distinct disjoint fragments that
\* passes both thresholds, with the confidence and lift computed from the store.
C3_ExactRules ==
    pc \in {"ruled", "raised"} =>
      LET fragments == Fragments
          expected == ExpectedRules(fragments)
      IN  (\A S \in fragments : TrueSupport(S) > 0) =>
        /\ pc = "ruled"
        /\ ReturnedPairs = expected
        /\ Len(association_rules) = Cardinality(expected)
        /\ \A i \in DOMAIN association_rules :
            LET r == association_rules[i]
            IN  /\ RatEq(r.confidence, TrueConfidence(r.condition, r.consequence))
                /\ RatEq(r.lift, TrueLift(r.condition, r.consequence))

\* Rules from two overlapping item sets, one of them joining fragments whose
\* union is no input item set, and a pair that was rejected.
C3_Witness ==
    /\ pc = "ruled"
    /\ Len(frequent_item_sets) = 2
    /\ frequent_item_sets[1].items \cap frequent_item_sets[2].items # {}
    /\ \E i \in DOMAIN association_rules :
        (association_rules[i].condition \cup association_rules[i].consequence)
            \notin InputItemSets
    /\ \E A, B \in Fragments : A \cap B = {} /\ <<A, B>> \notin ReturnedPairs

\* C4: every returned rule has a non-empty condition and consequence that
\* are disjoint, a confidence in [0, 1] and a lift >= 0.
C4_RulesValid ==
    pc = "ruled" =>
        \A i \in DOMAIN association_rules :
            LET r == association_rules[i]
            IN  /\ r.condition # {}
                /\ r.consequence # {}
                /\ r.condition \cap r.consequence = {}
                /\ r.confidence[2] > 0
                /\ 0 <= r.confidence[1]
                /\ r.confidence[1] <= r.confidence[2]
                /\ r.lift[2] > 0
                /\ 0 <= r.lift[1]

\* A returned rule with a confidence strictly inside (0, 1) and a lift above 1.
C4_Witness ==
    /\ pc = "ruled"
    /\ \E i \in DOMAIN association_rules :
        /\ RatLt(<<0, 1>>, association_rules[i].confidence)
        /\ RatLt(association_rules[i].confidence, <<1, 1>>)
        /\ RatLt(<<1, 1>>, association_rules[i].lift)

\* C5: when a fragment of the pool has support zero, association_rules does
\* not fail with a division by zero: it returns.
C5_ZeroSupportGuarded ==
    (/\ pc \in {"ruled", "raised"}
     /\ \E i \in DOMAIN global_item_subsets_support :
            global_item_subsets_support[i].support = 0)
        => (pc = "ruled" /\ error = "none")

\* C7: the returned rules are in descending order of confidence.
C7_SortedByConfidence ==
    pc = "ruled" =>
        \A i, j \in DOMAIN association_rules :
            i < j => RatLe(association_rules[j].confidence,
                           association_rules[i].confidence)

\* Rules that were appended out of order, two of which AssociationRule.__lt__
\* does not order although their confidences differ.
C7_Witness ==
    /\ pc = "ruled"
    /\ association_rules #
           EmittedRules(global_item_subsets_support, minimum_confidence, minimum_lift)
    /\ \E i, j \in DOMAIN association_rules :
        /\ RatLt(association_rules[i].confidence, association_rules[j].confidence)
        /\ RatLt(association_rules[j].lift, association_rules[i].lift)

\* The store agrees with the supports Scenario 3 lists for {a} and {b}.
Scenario3Store ==
    /\ transaction_count = Scenario3.count
    /\ frequent_item_sets = Scenario3.sets
    /\ TrueSupport({"a"}) = Scenario3.sets[1].support
    /\ TrueSupport({"b"}) = Scenario3.sets[2].support

ReturnsRule(condition, consequence, confidence, lift) ==
    \E i \in DOMAIN association_rules :
        /\ association_rules[i].condition = condition
        /\ association_rules[i].consequence = consequence
        /\ RatEq(association_rules[i].confidence, confidence)
        /\ RatEq(association_rules[i].lift, lift)

\* C9 as stated: in Scenario 3 the rule a => b is returned with confidence
\* 2/4 and lift 2/3, the values that follow from the listed supports.
C9_ListedSupports ==
    (pc \in {"ruled", "raised"} /\ Scenario3Store) =>
        ReturnsRule({"a"}, {"b"}, Scenario3.min_confidence, Scenario3.lift)

\* C9 as amended: in Scenario 3, over a store in which a occurs in 4 and b in
\* 3 of the 4 transactions, the rule a => b is returned with confidence 3/4
\* and lift 1: the values follow the supports in the store, not those listed
\* with the input item sets.
C9_StoreSupports ==
    (pc \in {"ruled", "raised"} /\ Scenario3Store) =>
        /\ pc = "ruled"
        /\ ReturnsRule({"a"}, {"b"}, <<3, 4>>, <<1, 1>>)
        /\ \A i \in DOMAIN association_rules :
            LET r == association_rules[i]
            IN  /\ RatEq(r.confidence, TrueConfidence(r.condition, r.consequence))
                /\ RatEq(r.lift, TrueLift(r.condition, r.consequence))

\* Scenario 3 run with the largest lift threshold it allows.
C9_Witness ==
    /\ pc = "ruled"
    /\ Scenario3Store
    /\ minimum_lift = Scenario3.lift

-----------------------------------------------------------------------------
\* Both operations on one store.

Next == MineNext \/ RuleNext

Spec == Init /\ [][Next]_vars

====
